---------------------------- MODULE Spec2Model ----------------------------
(* Model of the BMRS imbalance visualiser: the retrying fetchers            *)
(* (task1.fetch_data and the two fetchers of task2), the normalisation      *)
(* (drop_na_get_final), the snapshot comparison (plot_diff) and the         *)
(* polling loop (auto_update_loop).                                         *)
EXTENDS Integers, Sequences, FiniteSets, TLC

VARIABLES
    \* ---- retrying fetchers ----
    fetcher,              \* which fetch function is running
    query_attempt_count,  \* its parameter
    plan,                 \* what the server answers to the requests of attempt i
    attempt,              \* local variable attempt
    r1, r2,               \* local variables r1, r2 (task2: r is r1)
    events,               \* the requests and sleeps performed, in order
    fpc,                  \* "loop", "check", "returned", "raised"
    result,               \* what the caller receives
    \* ---- normalisation ----
    df_raw,               \* the raw rows (req_to_df + convert_col_to_cest)
    final_df,             \* drop_na_get_final(df_raw)
    final_df2,            \* drop_na_get_final(final_df)
    npc,                  \* "raw", "once", "twice"
    order_str,            \* the second result of create_custom_ordering(final_df)
    sp_order,             \* the result of task2.settlement_period_order()
    \* ---- snapshot comparison ----
    prev_df,              \* the previous snapshot
    new_df,               \* the new snapshot
    merged,               \* the merged frame of plot_diff
    is_same_date,         \* plot_diff's is_same_date
    dpc,                  \* "input", "plotted"
    \* ---- polling loop ----
    update_interval,      \* timedelta(minutes=update_interval_minutes), in seconds
    retry,                \* parameter retry
    retry_increments,     \* parameter retry_increments
    prev_max_publish,     \* local prev_max_publish
    new_max_publish,      \* local new_max_publish
    update_cycle,         \* local update_cycle
    retry_i,              \* position of the for loop in retry_increments
    seconds,              \* countdown_timer's seconds
    now,                  \* the wall clock, in ticks
    lpc,                  \* where auto_update_loop is
    raised_in,            \* where an exception left auto_update_loop, if one did
    cycle_events,         \* what the current cycle has done so far
    next_expected,        \* local next_expected, in seconds
    cancel_requested      \* the environment has asked the loop to stop

fetchVars == <<fetcher, query_attempt_count, plan, attempt, r1, r2, events, fpc, result>>

normVars == <<df_raw, final_df, final_df2, npc, order_str, sp_order>>

diffVars == <<prev_df, new_df, merged, is_same_date, dpc>>

loopVars == <<update_interval, retry, retry_increments, prev_max_publish,
              new_max_publish, update_cycle, retry_i, seconds, now, lpc,
              raised_in, cycle_events, next_expected, cancel_requested>>

vars == <<fetchVars, normVars, diffVars, loopVars>>

-----------------------------------------------------------------------------
(* Bounds *)

MaxAttempts == 3

\* settlement periods are 1..MaxPeriod
MaxPeriod == 2

\* publish times are 1..MaxPublish
MaxPublish == 2

\* indicated imbalances are 1..MaxValue
MaxValue == 2

\* rows of a raw frame and of a snapshot
MaxRows == 2

\* the clock has TicksPerSecond ticks in a second and stops at MaxNow ticks
TicksPerSecond == 2

MaxNow == 10

\* a fetch takes 1..MaxFetchTicks ticks
MaxFetchTicks == 2

\* update intervals are 0..MaxInterval seconds
MaxInterval == 2

\* retry_increments has 1..MaxRetries delays of -1..MaxIncrement seconds
MaxRetries == 2

MaxIncrement == 1

-----------------------------------------------------------------------------
(* Generic helpers *)

RECURSIVE CountOf(_, _)
CountOf(s, x) ==
    IF s = <<>> THEN 0
    ELSE (IF Head(s) = x THEN 1 ELSE 0) + CountOf(Tail(s), x)

\* r1, r2 = None, None: no response yet
None == [status_code |-> 0, made_in |-> 0]

-----------------------------------------------------------------------------
(* Rows of the data frames *)

\* fetch_data asks for two settlement dates: the day before, and the day.
Dates == {"last_day", "date"}

Periods == 1..MaxPeriod

\* A missing value (NaN / None) and a present one.
NaN == <<>>

Some(v) == <<v>>

\* pd.NaT, the maximum of an empty datetime column
NaT == <<>>

Row(d, p, v, t) ==
    [settlementDate |-> d, settlementPeriod |-> p,
     indicatedImbalance |-> v, publishTime_cest |-> t]

\* The key of groupby(["settlementDate", "settlementPeriod"]).
KeyOf(r) == <<r.settlementDate, r.settlementPeriod>>

Keys == Dates \X Periods

RowsOf(df) == {df[i] : i \in 1..Len(df)}

-----------------------------------------------------------------------------
(* Normalisation: task1.drop_na_get_final *)

\* df.dropna(subset=["indicatedImbalance"])
dropna(df) == SelectSeq(df, LAMBDA r : r.indicatedImbalance # NaN)

\* df_valid.sort_values("publishTime_cest"): ascending, with kind="quicksort",
\* which is not stable: rows of equal publish time may come out in any order.
RECURSIVE OrdersOf(_, _)
OrdersOf(df, I) ==
    IF I = {} THEN {<<>>}
    ELSE LET firsts == {i \in I : \A j \in I :
                            df[i].publishTime_cest <= df[j].publishTime_cest}
         IN  UNION {{<<df[i]>> \o o : o \in OrdersOf(df, I \ {i})} : i \in firsts}

sort_values(df) == OrdersOf(df, 1..Len(df))

\* A slip: head(1) for tail(1), the first row of each group.
RECURSIVE GroupHead(_)
GroupHead(df) ==
    IF df = <<>> THEN <<>>
    ELSE LET n == Len(df)
             init == GroupHead(SubSeq(df, 1, n - 1))
         IN  IF \E j \in 1..(n - 1) : KeyOf(df[j]) = KeyOf(df[n])
             THEN init
             ELSE Append(init, df[n])

\* A slip: tail(-1) for tail(1), every row of each group but its first.
RECURSIVE GroupAllButFirst(_)
GroupAllButFirst(df) ==
    IF df = <<>> THEN <<>>
    ELSE LET n == Len(df)
             init == GroupAllButFirst(SubSeq(df, 1, n - 1))
         IN  IF \E j \in 1..(n - 1) : KeyOf(df[j]) = KeyOf(df[n])
             THEN Append(init, df[n])
             ELSE init

\* .groupby(["settlementDate", "settlementPeriod"]).tail(1).reset_index(drop=True):
\* the last row of each group, in the order of the frame.
RECURSIVE GroupTail(_)
GroupTail(df) ==
    IF df = <<>> THEN <<>>
    ELSE IF \E j \in 2..Len(df) : KeyOf(df[j]) = KeyOf(df[1])
         THEN GroupTail(Tail(df))
         ELSE <<df[1]>> \o GroupTail(Tail(df))

\* The frames drop_na_get_final(df) can return.
drop_na_get_final(df) == {GroupTail(sorted) : sorted \in sort_values(dropna(df))}

\* Raw frames of n rows; row i has no value or a value of its own.
RawFramesOfLen(n) ==
    [1..n -> Dates \X Periods \X BOOLEAN \X (1..MaxPublish)]

RawFrame(f) ==
    [i \in DOMAIN f |->
        Row(f[i][1], f[i][2], IF f[i][3] THEN Some(i) ELSE NaN, f[i][4])]

\* drop_na_get_final is about to be applied to a raw frame; nothing else runs.
InitNorm ==
    /\ \E n \in 0..MaxRows : \E f \in RawFramesOfLen(n) : df_raw = RawFrame(f)
    /\ final_df = <<>>
    /\ final_df2 = <<>>
    /\ npc = "raw"
    /\ order_str = <<>>
    /\ sp_order = <<>>
    /\ fetcher = "none"
    /\ query_attempt_count = 0
    /\ plan = <<>>
    /\ attempt = 0
    /\ r1 = None
    /\ r2 = None
    /\ events = <<>>
    /\ fpc = "idle"
    /\ result = <<>>
    /\ prev_df = <<>>
    /\ new_df = <<>>
    /\ merged = {}
    /\ is_same_date = FALSE
    /\ dpc = "idle"
    /\ update_interval = 0
    /\ retry = FALSE
    /\ retry_increments = <<>>
    /\ prev_max_publish = NaT
    /\ new_max_publish = NaT
    /\ update_cycle = 0
    /\ retry_i = 0
    /\ seconds = 0
    /\ now = 0
    /\ lpc = "idle"
    /\ raised_in = ""
    /\ cycle_events = <<>>
    /\ next_expected = NaT
    /\ cancel_requested = FALSE

\* final_df = drop_na_get_final(df_raw)
Normalize ==
    /\ npc = "raw"
    /\ final_df' \in drop_na_get_final(df_raw)
    /\ npc' = "once"
    /\ UNCHANGED <<df_raw, final_df2, order_str, sp_order>>
    /\ UNCHANGED <<fetchVars, diffVars, loopVars>>

\* drop_na_get_final applied to its own result
NormalizeAgain ==
    /\ npc = "once"
    /\ final_df2' \in drop_na_get_final(final_df)
    /\ npc' = "twice"
    /\ UNCHANGED <<df_raw, final_df, order_str, sp_order>>
    /\ UNCHANGED <<fetchVars, diffVars, loopVars>>

NextNorm ==
    \/ Normalize
    \/ NormalizeAgain

-----------------------------------------------------------------------------
(* Snapshot comparison: the data part of task1.plot_diff *)

\* df["settlementDate"].unique()
UniqueDates(df) == {df[i].settlementDate : i \in 1..Len(df)}

\* A slip: the two single dates are not compared.
IsSameDateNotCompared(prev, new) ==
    /\ Cardinality(UniqueDates(prev)) = 1
    /\ Cardinality(UniqueDates(new)) = 1

\* if len(prev_dates) == 1 and len(new_dates) == 1 and prev_dates[0] == new_dates[0]
IsSameDate(prev, new) ==
    /\ Cardinality(UniqueDates(prev)) = 1
    /\ Cardinality(UniqueDates(new)) = 1
    /\ UniqueDates(prev) = UniqueDates(new)

\* merge_on: ["settlementDate", "settlementPeriod"] or ["settlementPeriod"]
MergeKey(r, same) ==
    IF same THEN <<r.settlementDate, r.settlementPeriod>> ELSE <<r.settlementPeriod>>

\* The columns of the side that has no row for a key of the outer join.
NoRow == Row("", 0, NaN, 0)

\* A slip: the difference taken the wrong way round.
DeltaSwapped(new_value, prev_value) ==
    IF new_value = NaN \/ prev_value = NaN THEN NaN
    ELSE Some(prev_value[1] - new_value[1])

\* merged["delta"] = merged["indicatedImbalance_new"] - merged["indicatedImbalance_prev"]
Delta(new_value, prev_value) ==
    IF new_value = NaN \/ prev_value = NaN THEN NaN
    ELSE Some(new_value[1] - prev_value[1])

MergedRow(key, p, n) ==
    [key |-> key, prev |-> p, new |-> n,
     indicatedImbalance_prev |-> p.indicatedImbalance,
     indicatedImbalance_new |-> n.indicatedImbalance,
     delta |-> Delta(n.indicatedImbalance, p.indicatedImbalance)]

\* prev_df.merge(new_df, on=merge_on, how="outer") with the delta column:
\* one row for every pair of rows that agree on the key, and one for every
\* row without a partner. The rows are held as a set; their order in the
\* frame is not modelled.
Merge(prev, new, same) ==
    LET P == RowsOf(prev)
        N == RowsOf(new)
    IN  {MergedRow(MergeKey(p, same), p, n) :
            <<p, n>> \in {pn \in P \X N : MergeKey(pn[1], same) = MergeKey(pn[2], same)}}
        \cup {MergedRow(MergeKey(p, same), p, NoRow) :
                p \in {q \in P : \A n \in N : MergeKey(q, same) # MergeKey(n, same)}}
        \cup {MergedRow(MergeKey(n, same), NoRow, n) :
                n \in {q \in N : \A p \in P : MergeKey(q, same) # MergeKey(p, same)}}

\* prev_mask, new_mask, both_mask
prev_mask(row) == row.indicatedImbalance_prev # NaN

new_mask(row) == row.indicatedImbalance_new # NaN

both_mask(row) == prev_mask(row) /\ new_mask(row)

RECURSIVE SeqOfSet(_)
SeqOfSet(S) ==
    IF S = {} THEN <<>>
    ELSE LET x == CHOOSE y \in S : TRUE IN <<x>> \o SeqOfSet(S \ {x})

\* Normalised snapshots: at most one row for a (settlementDate, settlementPeriod),
\* every value present. plot_diff reads the publish times for the title only;
\* they are all 1 here.
SnapshotOf(K, f) ==
    LET ks == SeqOfSet(K)
    IN  [i \in 1..Len(ks) |-> Row(ks[i][1], ks[i][2], Some(f[ks[i]]), 1)]

Snapshots ==
    UNION {{SnapshotOf(K, f) : f \in [K -> 1..MaxValue]} :
              K \in {K \in SUBSET Keys : Cardinality(K) <= MaxRows}}

\* The example of the specification: {1:100, 2:200} against {1:150, 2:200, 3:50}.
ExamplePrev == <<Row("date", 1, Some(100), 1), Row("date", 2, Some(200), 1)>>

ExampleNew ==
    <<Row("date", 1, Some(150), 1), Row("date", 2, Some(200), 1),
      Row("date", 3, Some(50), 1)>>

\* plot_diff is about to be applied to two snapshots; nothing else runs.
InitDiff ==
    /\ \/ prev_df \in Snapshots /\ new_df \in Snapshots
       \/ prev_df = ExamplePrev /\ new_df = ExampleNew
    /\ merged = {}
    /\ is_same_date = FALSE
    /\ dpc = "input"
    /\ fetcher = "none"
    /\ query_attempt_count = 0
    /\ plan = <<>>
    /\ attempt = 0
    /\ r1 = None
    /\ r2 = None
    /\ events = <<>>
    /\ fpc = "idle"
    /\ result = <<>>
    /\ df_raw = <<>>
    /\ final_df = <<>>
    /\ final_df2 = <<>>
    /\ npc = "idle"
    /\ order_str = <<>>
    /\ sp_order = <<>>
    /\ update_interval = 0
    /\ retry = FALSE
    /\ retry_increments = <<>>
    /\ prev_max_publish = NaT
    /\ new_max_publish = NaT
    /\ update_cycle = 0
    /\ retry_i = 0
    /\ seconds = 0
    /\ now = 0
    /\ lpc = "idle"
    /\ raised_in = ""
    /\ cycle_events = <<>>
    /\ next_expected = NaT
    /\ cancel_requested = FALSE

\* plot_diff(prev_df, new_df, ...), up to the masks
PlotDiff ==
    /\ dpc = "input"
    /\ is_same_date' = IsSameDate(prev_df, new_df)
    /\ merged' = Merge(prev_df, new_df, IsSameDate(prev_df, new_df))
    /\ dpc' = "plotted"
    /\ UNCHANGED <<prev_df, new_df>>
    /\ UNCHANGED <<fetchVars, normVars, loopVars>>

NextDiff == PlotDiff

-----------------------------------------------------------------------------
(* Settlement-period ordering: task1.create_custom_ordering and             *)
(* task2.settlement_period_order                                            *)

\* str(n) for n >= 0: the decimal digits of n, most significant first.
DigitChars == <<"0", "1", "2", "3", "4", "5", "6", "7", "8", "9">>

RECURSIVE str(_)
str(n) ==
    IF n < 10 THEN <<DigitChars[n + 1]>>
    ELSE Append(str(n \div 10), DigitChars[(n % 10) + 1])

\* list(range(a, b)): a, a + 1, ..., b - 1
range(a, b) == [i \in 1..(b - a) |-> a + i - 1]

\* list(map(str, order))
map_str(order) == [i \in DOMAIN order |-> str(order[i])]

\* A slip: the periods in their natural order, 1..48.
create_natural_ordering(df) ==
    <<[i \in DOMAIN df |->
          [settlementDate |-> df[i].settlementDate,
           settlementPeriod |-> df[i].settlementPeriod,
           indicatedImbalance |-> df[i].indicatedImbalance,
           publishTime_cest |-> df[i].publishTime_cest,
           settlementPeriod_str |-> str(df[i].settlementPeriod)]],
      map_str(range(1, 49))>>

\* create_custom_ordering(final_df): the frame with the column
\* settlementPeriod_str, and order_str.
create_custom_ordering(df) ==
    <<[i \in DOMAIN df |->
          [settlementDate |-> df[i].settlementDate,
           settlementPeriod |-> df[i].settlementPeriod,
           indicatedImbalance |-> df[i].indicatedImbalance,
           publishTime_cest |-> df[i].publishTime_cest,
           settlementPeriod_str |-> str(df[i].settlementPeriod)]],
      map_str(<<47, 48>> \o range(1, 47))>>

\* task2.settlement_period_order()
settlement_period_order == map_str(<<47, 48>> \o range(1, 47))

\* final_df, order_str = create_custom_ordering(final_df), as full_run_and_plot
\* calls it on the normalised frame.
CreateCustomOrdering ==
    /\ npc = "normalised"
    /\ order_str = <<>>
    /\ order_str' = create_custom_ordering(final_df)[2]
    /\ UNCHANGED <<df_raw, final_df, final_df2, npc, sp_order>>
    /\ UNCHANGED <<fetchVars, diffVars, loopVars>>

\* order = settlement_period_order()
SettlementPeriodOrder ==
    /\ npc = "normalised"
    /\ sp_order = <<>>
    /\ sp_order' = settlement_period_order
    /\ UNCHANGED <<df_raw, final_df, final_df2, npc, order_str>>
    /\ UNCHANGED <<fetchVars, diffVars, loopVars>>

\* A normalised frame is about to be given its ordering; nothing else runs.
InitOrder ==
    /\ final_df \in Snapshots
    /\ df_raw = <<>>
    /\ final_df2 = <<>>
    /\ npc = "normalised"
    /\ order_str = <<>>
    /\ sp_order = <<>>
    /\ fetcher = "none"
    /\ query_attempt_count = 0
    /\ plan = <<>>
    /\ attempt = 0
    /\ r1 = None
    /\ r2 = None
    /\ events = <<>>
    /\ fpc = "idle"
    /\ result = <<>>
    /\ prev_df = <<>>
    /\ new_df = <<>>
    /\ merged = {}
    /\ is_same_date = FALSE
    /\ dpc = "idle"
    /\ update_interval = 0
    /\ retry = FALSE
    /\ retry_increments = <<>>
    /\ prev_max_publish = NaT
    /\ new_max_publish = NaT
    /\ update_cycle = 0
    /\ retry_i = 0
    /\ seconds = 0
    /\ now = 0
    /\ lpc = "idle"
    /\ raised_in = ""
    /\ cycle_events = <<>>
    /\ next_expected = NaT
    /\ cancel_requested = FALSE

NextOrder ==
    \/ CreateCustomOrdering
    \/ SettlementPeriodOrder

-----------------------------------------------------------------------------
(* Polling loop: task1.countdown_timer and task1.auto_update_loop *)

\* df["publishTime_cest"].max()
RECURSIVE MaxPublishTime(_)
MaxPublishTime(df) ==
    IF Len(df) = 1 THEN df[1].publishTime_cest
    ELSE LET m == MaxPublishTime(Tail(df))
         IN  IF df[1].publishTime_cest >= m THEN df[1].publishTime_cest ELSE m

PublishMax(df) == IF df = <<>> THEN NaT ELSE Some(MaxPublishTime(df))

\* A slip: >= for >.
IsNewerOrEqual(new_max, prev_max) ==
    new_max # NaT /\ prev_max # NaT /\ new_max[1] >= prev_max[1]

\* new_max_publish > prev_max_publish (False when either is NaT)
IsNewer(new_max, prev_max) ==
    new_max # NaT /\ prev_max # NaT /\ new_max[1] > prev_max[1]

\* A slip: the interval is not added.
NextExpectedNoInterval(prev_max, interval) == prev_max

\* next_expected = prev_max_publish + dt.timedelta(minutes=update_interval_minutes),
\* in seconds; NaT when prev_max_publish is NaT.
NextExpected(prev_max, interval) ==
    IF prev_max = NaT THEN NaT ELSE Some(prev_max[1] + interval)

\* seconds_to_wait = (next_expected - now).total_seconds(), in ticks; NaN when
\* prev_max_publish is NaT.
SecondsToWait(prev_max, interval, clock) ==
    LET expected == NextExpected(prev_max, interval)
    IN  IF expected = NaT THEN NaN
        ELSE Some(expected[1] * TicksPerSecond - clock)

\* A slip: the wait is not clamped.
ShouldWaitAlways(w) == w # NaN

\* if seconds_to_wait > 0
ShouldWait(w) == w # NaN /\ w[1] > 0

\* int(seconds_to_wait): whole seconds, rounded towards zero
IntSeconds(ticks) ==
    IF ticks >= 0 THEN ticks \div TicksPerSecond ELSE -((-ticks) \div TicksPerSecond)

\* What the server can hold when full_run_and_plot asks: one row for period 1
\* of the day, with or without a value.
LoopFrames ==
    {<<Row("date", 1, v, t)>> : v \in {NaN, Some(1)}, t \in 1..MaxPublish}

\* full_run_and_plot(date, do_plot=False) and create_custom_ordering, when
\* fetch_data returns: the snapshots it can produce.
FullRun == UNION {drop_na_get_final(raw) : raw \in LoopFrames}

RetryIncrementChoices ==
    UNION {[1..n -> (-1)..MaxIncrement] : n \in 1..MaxRetries}

\* A slip: the test of the flag is inverted.
RetryDisabledInverted(flag) == flag

\* if not retry
RetryDisabled(flag) == ~flag

\* A slip: the delays are taken from the end.
RetryDelayReversed(incs, i) == incs[Len(incs) + 1 - i]

\* for inc in retry_increments: the delay of the i-th turn
RetryDelay(incs, i) == incs[i]

\* A slip: prev_df = new_df is left out.
AcceptCandidateKeepsOld(snap) ==
    /\ is_same_date' = IsSameDate(prev_df, snap)
    /\ merged' = Merge(prev_df, snap, IsSameDate(prev_df, snap))
    /\ prev_df' = prev_df
    /\ prev_max_publish' = PublishMax(snap)

\* plot_diff(prev_df, new_df, ...); prev_df = new_df; prev_max_publish = new_max_publish
AcceptCandidate(snap) ==
    /\ is_same_date' = IsSameDate(prev_df, snap)
    /\ merged' = Merge(prev_df, snap, IsSameDate(prev_df, snap))
    /\ prev_df' = snap
    /\ prev_max_publish' = PublishMax(snap)

\* full_run_and_plot takes time.
FetchTakesTime ==
    \E d \in 1..MaxFetchTicks : now + d <= MaxNow /\ now' = now + d

\* plot(final_df, order_str) raises on a frame without rows: main_date and
\* latest_publish are NaT, and NaT.strftime raises ValueError.
PlotRaises(df) == PublishMax(df) = NaT

\* The initial snapshot: prev_df = full_run_and_plot(date, do_plot=True).
Start ==
    /\ lpc = "start"
    /\ FetchTakesTime
    /\ \/ \* fetch_data raises: nothing catches it
          /\ lpc' = "terminated"
          /\ raised_in' = "start"
          /\ UNCHANGED <<prev_df, prev_max_publish, update_cycle>>
       \/ \E snap \in FullRun :
             IF PlotRaises(snap)
             THEN \* plot raises inside full_run_and_plot: nothing catches it
                  /\ lpc' = "terminated"
                  /\ raised_in' = "start"
                  /\ UNCHANGED <<prev_df, prev_max_publish, update_cycle>>
             ELSE /\ prev_df' = snap
                  /\ prev_max_publish' = PublishMax(snap)
                  /\ update_cycle' = 1
                  /\ lpc' = "cycle"
                  /\ UNCHANGED raised_in
    /\ UNCHANGED <<new_df, merged, is_same_date, dpc, update_interval, retry,
                   retry_increments, new_max_publish, retry_i, seconds, cycle_events>>
    /\ UNCHANGED <<next_expected, cancel_requested>>
    /\ UNCHANGED <<fetchVars, normVars>>

\* The top of while True: next_expected, seconds_to_wait, and the call of
\* countdown_timer(int(seconds_to_wait)) when seconds_to_wait > 0.
CycleStart ==
    /\ lpc = "cycle"
    /\ LET w == SecondsToWait(prev_max_publish, update_interval, now)
       IN  IF ShouldWait(w)
           THEN /\ seconds' = IntSeconds(w[1])
                /\ lpc' = "countdown"
                /\ cycle_events' = <<<<"countdown", IntSeconds(w[1])>>>>
           ELSE /\ lpc' = "check"
                /\ cycle_events' = <<>>
                /\ UNCHANGED seconds
    /\ next_expected' = NextExpected(prev_max_publish, update_interval)
    /\ UNCHANGED cancel_requested
    /\ UNCHANGED <<diffVars, update_interval, retry, retry_increments,
                   prev_max_publish, new_max_publish, update_cycle, retry_i, now,
                   raised_in>>
    /\ UNCHANGED <<fetchVars, normVars>>

\* countdown_timer: one turn of while seconds: time.sleep(1); seconds -= 1
CountdownTick ==
    /\ lpc \in {"countdown", "retry_countdown"}
    /\ seconds # 0
    /\ now + TicksPerSecond <= MaxNow
    /\ now' = now + TicksPerSecond
    /\ seconds' = seconds - 1
    /\ cycle_events' = Append(cycle_events, <<"sleep", 1>>)
    /\ UNCHANGED <<diffVars, update_interval, retry, retry_increments,
                   prev_max_publish, new_max_publish, update_cycle, retry_i, lpc,
                   raised_in>>
    /\ UNCHANGED <<next_expected, cancel_requested>>
    /\ UNCHANGED <<fetchVars, normVars>>

\* countdown_timer returns when seconds is 0
CountdownDone ==
    /\ lpc \in {"countdown", "retry_countdown"}
    /\ seconds = 0
    /\ lpc' = IF lpc = "countdown" THEN "check" ELSE "retry_fetch"
    /\ UNCHANGED <<diffVars, update_interval, retry, retry_increments,
                   prev_max_publish, new_max_publish, update_cycle, retry_i,
                   seconds, now, raised_in, cycle_events>>
    /\ UNCHANGED <<next_expected, cancel_requested>>
    /\ UNCHANGED <<fetchVars, normVars>>

\* The first attempt of a cycle: fetch, compare, and the three ways on.
Check ==
    /\ lpc = "check"
    /\ FetchTakesTime
    /\ \/ \* fetch_data raises: nothing catches it
          /\ lpc' = "terminated"
          /\ raised_in' = "check"
          /\ cycle_events' = Append(cycle_events, <<"fetch", 0>>)
          /\ UNCHANGED <<prev_df, new_df, merged, is_same_date, prev_max_publish,
                         new_max_publish, update_cycle, retry_i>>
       \/ \E snap \in FullRun :
             /\ new_df' = snap
             /\ new_max_publish' = PublishMax(snap)
             /\ UNCHANGED raised_in
             /\ IF IsNewer(PublishMax(snap), prev_max_publish)
                THEN /\ AcceptCandidate(snap)
                     /\ cycle_events' = cycle_events \o <<<<"fetch", 0>>, <<"diff", 0>>>>
                     /\ update_cycle' = update_cycle + 1
                     /\ lpc' = "cycle"
                     /\ UNCHANGED retry_i
                ELSE /\ cycle_events' = Append(cycle_events, <<"fetch", 0>>)
                     /\ UNCHANGED <<prev_df, merged, is_same_date, prev_max_publish>>
                     /\ IF RetryDisabled(retry)
                        THEN /\ update_cycle' = update_cycle + 1
                             /\ lpc' = "cycle"
                             /\ UNCHANGED retry_i
                        ELSE /\ retry_i' = 1
                             /\ lpc' = "retry_next"
                             /\ UNCHANGED update_cycle
    /\ UNCHANGED <<dpc, update_interval, retry, retry_increments, seconds>>
    /\ UNCHANGED <<next_expected, cancel_requested>>
    /\ UNCHANGED <<fetchVars, normVars>>

\* for inc in retry_increments: countdown_timer(inc); and, when the delays are
\* used up, update_cycle += 1.
RetryNext ==
    /\ lpc = "retry_next"
    /\ IF retry_i > Len(retry_increments)
       THEN /\ update_cycle' = update_cycle + 1
            /\ lpc' = "cycle"
            /\ UNCHANGED <<seconds, cycle_events>>
       ELSE /\ seconds' = RetryDelay(retry_increments, retry_i)
            /\ lpc' = "retry_countdown"
            /\ cycle_events' =
                  Append(cycle_events,
                         <<"countdown", RetryDelay(retry_increments, retry_i)>>)
            /\ UNCHANGED update_cycle
    /\ UNCHANGED <<diffVars, update_interval, retry, retry_increments,
                   prev_max_publish, new_max_publish, retry_i, now, raised_in>>
    /\ UNCHANGED <<next_expected, cancel_requested>>
    /\ UNCHANGED <<fetchVars, normVars>>

\* The fetch of a retry: fetch, compare, break on new data.
RetryFetch ==
    /\ lpc = "retry_fetch"
    /\ FetchTakesTime
    /\ \/ \* fetch_data raises: nothing catches it
          /\ lpc' = "terminated"
          /\ raised_in' = "retry"
          /\ cycle_events' = Append(cycle_events, <<"fetch", 0>>)
          /\ UNCHANGED <<prev_df, new_df, merged, is_same_date, prev_max_publish,
                         new_max_publish, update_cycle, retry_i>>
       \/ \E snap \in FullRun :
             /\ new_df' = snap
             /\ new_max_publish' = PublishMax(snap)
             /\ UNCHANGED raised_in
             /\ IF IsNewer(PublishMax(snap), prev_max_publish)
                THEN /\ AcceptCandidate(snap)
                     /\ cycle_events' = cycle_events \o <<<<"fetch", 0>>, <<"diff", 0>>>>
                     /\ update_cycle' = update_cycle + 1
                     /\ lpc' = "cycle"
                     /\ UNCHANGED retry_i
                ELSE /\ cycle_events' = Append(cycle_events, <<"fetch", 0>>)
                     /\ retry_i' = retry_i + 1
                     /\ lpc' = "retry_next"
                     /\ UNCHANGED <<prev_df, merged, is_same_date, prev_max_publish,
                                    update_cycle>>
    /\ UNCHANGED <<dpc, update_interval, retry, retry_increments, seconds>>
    /\ UNCHANGED <<next_expected, cancel_requested>>
    /\ UNCHANGED <<fetchVars, normVars>>

\* The environment asks the loop to stop while the loop sleeps in
\* countdown_timer. auto_update_loop and countdown_timer take no cancellation
\* signal and read none: the request changes nothing that they look at.
Cancel ==
    /\ lpc \in {"countdown", "retry_countdown"}
    /\ ~cancel_requested
    /\ cancel_requested' = TRUE
    /\ UNCHANGED <<diffVars, update_interval, retry, retry_increments,
                   prev_max_publish, new_max_publish, update_cycle, retry_i,
                   seconds, now, lpc, raised_in, cycle_events, next_expected>>
    /\ UNCHANGED <<fetchVars, normVars>>

\* auto_update_loop is called; nothing else runs.
Init ==
    /\ update_interval \in 0..MaxInterval
    /\ retry \in BOOLEAN
    /\ retry_increments \in RetryIncrementChoices
    /\ prev_max_publish = NaT
    /\ new_max_publish = NaT
    /\ update_cycle = 0
    /\ retry_i = 0
    /\ seconds = 0
    /\ now = 0
    /\ lpc = "start"
    /\ raised_in = ""
    /\ cycle_events = <<>>
    /\ next_expected = NaT
    /\ cancel_requested = FALSE
    /\ prev_df = <<>>
    /\ new_df = <<>>
    /\ merged = {}
    /\ is_same_date = FALSE
    /\ dpc = "idle"
    /\ fetcher = "none"
    /\ query_attempt_count = 0
    /\ plan = <<>>
    /\ attempt = 0
    /\ r1 = None
    /\ r2 = None
    /\ events = <<>>
    /\ fpc = "idle"
    /\ result = <<>>
    /\ df_raw = <<>>
    /\ final_df = <<>>
    /\ final_df2 = <<>>
    /\ npc = "idle"
    /\ order_str = <<>>
    /\ sp_order = <<>>

Next ==
    \/ Start
    \/ CycleStart
    \/ CountdownTick
    \/ CountdownDone
    \/ Check
    \/ RetryNext
    \/ RetryFetch
    \/ Cancel

-----------------------------------------------------------------------------
(* Retrying fetchers: task1.fetch_data, task2.fetch_wind_solar_forecast,    *)
(* task2.fetch_wind_solar_actuals                                           *)

Fetchers == {"fetch_data", "fetch_wind_solar_forecast", "fetch_wind_solar_actuals"}

SingleRequest == {"fetch_wind_solar_forecast", "fetch_wind_solar_actuals"}

\* What one rq.get can do: raise, answer with a status other than 200, answer 200.
Outcomes == {"exception", "non200", "ok200"}

\* The response object rq.get returns in attempt a for outcome o.
Response(o, a) == [status_code |-> IF o = "ok200" THEN 200 ELSE 500, made_in |-> a]

\* A slip in the break test: only the first response is looked at.
BothOkMutant(a, b) == a.status_code = 200

\* if r1.status_code == 200 and r2.status_code == 200: break
BothOk(a, b) == a.status_code = 200 /\ b.status_code = 200

\* if r1 is None or r2 is None or r1.status_code != 200 or r2.status_code != 200
FetchFailed(a, b) ==
    a = None \/ b = None \/ a.status_code # 200 \/ b.status_code # 200

\* if r.status_code == 200: break
SingleOk(r) == r.status_code = 200

\* if r is None or r.status_code != 200
SingleFailed(r) == r = None \/ r.status_code # 200

\* A slip: time.sleep(2) after every failed attempt, the last one too.
AfterFailedAttemptAlwaysSleeps(ev) ==
    /\ attempt' = attempt + 1
    /\ events' = Append(ev, "sleep2")
    /\ fpc' = IF attempt + 1 <= query_attempt_count THEN "loop" ELSE "check"

\* attempt += 1; if attempt <= query_attempt_count: time.sleep(2)
AfterFailedAttempt(ev) ==
    /\ attempt' = attempt + 1
    /\ events' = IF attempt + 1 <= query_attempt_count THEN Append(ev, "sleep2") ELSE ev
    /\ fpc' = IF attempt + 1 <= query_attempt_count THEN "loop" ELSE "check"

\* One iteration of the while loop of fetch_data.
FetchDataAttempt ==
    /\ fetcher = "fetch_data"
    /\ fpc = "loop"
    /\ attempt <= query_attempt_count
    /\ LET o1 == plan[attempt][1]
           o2 == plan[attempt][2]
       IN  IF o1 = "exception"
           THEN \* rq.get(params1) raises: r1 and r2 keep their values
                /\ UNCHANGED <<r1, r2>>
                /\ AfterFailedAttempt(Append(events, "get1"))
           ELSE LET n1 == Response(o1, attempt)
                    ev1 == events \o <<"get1", "sleep1", "get2">>
                IN  /\ r1' = n1
                    /\ IF o2 = "exception"
                       THEN \* rq.get(params2) raises: r2 keeps its value
                            /\ UNCHANGED r2
                            /\ AfterFailedAttempt(ev1)
                       ELSE LET n2 == Response(o2, attempt)
                            IN  /\ r2' = n2
                                /\ IF BothOk(n1, n2)
                                   THEN /\ fpc' = "check"
                                        /\ events' = ev1
                                        /\ UNCHANGED attempt
                                   ELSE AfterFailedAttempt(ev1)
    /\ UNCHANGED <<fetcher, query_attempt_count, plan, result>>
    /\ UNCHANGED <<normVars, diffVars, loopVars>>

\* The code after the while loop of fetch_data.
FetchDataFinish ==
    /\ fetcher = "fetch_data"
    /\ fpc = "check"
    /\ IF FetchFailed(r1, r2)
       THEN /\ fpc' = "raised"
            /\ result' = <<>>
       ELSE /\ fpc' = "returned"
            /\ result' = <<r1, r2>>
    /\ UNCHANGED <<fetcher, query_attempt_count, plan, attempt, r1, r2, events>>
    /\ UNCHANGED <<normVars, diffVars, loopVars>>

\* One iteration of the while loop of a single-request fetcher of task2.
SingleAttempt ==
    /\ fetcher \in SingleRequest
    /\ fpc = "loop"
    /\ attempt <= query_attempt_count
    /\ LET o1 == plan[attempt][1]
           ev1 == Append(events, "get1")
       IN  IF o1 = "exception"
           THEN /\ UNCHANGED r1
                /\ AfterFailedAttempt(ev1)
           ELSE LET n1 == Response(o1, attempt)
                IN  /\ r1' = n1
                    /\ IF SingleOk(n1)
                       THEN /\ fpc' = "check"
                            /\ events' = ev1
                            /\ UNCHANGED attempt
                       ELSE AfterFailedAttempt(ev1)
    /\ UNCHANGED <<fetcher, query_attempt_count, plan, r2, result>>
    /\ UNCHANGED <<normVars, diffVars, loopVars>>

\* The code after the while loop of a single-request fetcher.
SingleFinish ==
    /\ fetcher \in SingleRequest
    /\ fpc = "check"
    /\ IF SingleFailed(r1)
       THEN /\ fpc' = "raised"
            /\ result' = <<>>
       ELSE /\ fpc' = "returned"
            /\ result' = <<r1>>
    /\ UNCHANGED <<fetcher, query_attempt_count, plan, attempt, r1, r2, events>>
    /\ UNCHANGED <<normVars, diffVars, loopVars>>

\* A call of a fetcher: attempt = 1, r1, r2 = None, None; nothing else runs.
InitFetch ==
    /\ fetcher \in Fetchers
    /\ query_attempt_count \in 1..MaxAttempts
    /\ plan \in [1..query_attempt_count ->
                    IF fetcher = "fetch_data"
                    THEN Outcomes \X Outcomes
                    ELSE Outcomes \X {"unused"}]
    /\ attempt = 1
    /\ r1 = None
    /\ r2 = None
    /\ events = <<>>
    /\ fpc = "loop"
    /\ result = <<>>
    /\ df_raw = <<>>
    /\ final_df = <<>>
    /\ final_df2 = <<>>
    /\ npc = "idle"
    /\ order_str = <<>>
    /\ sp_order = <<>>
    /\ prev_df = <<>>
    /\ new_df = <<>>
    /\ merged = {}
    /\ is_same_date = FALSE
    /\ dpc = "idle"
    /\ update_interval = 0
    /\ retry = FALSE
    /\ retry_increments = <<>>
    /\ prev_max_publish = NaT
    /\ new_max_publish = NaT
    /\ update_cycle = 0
    /\ retry_i = 0
    /\ seconds = 0
    /\ now = 0
    /\ lpc = "idle"
    /\ raised_in = ""
    /\ cycle_events = <<>>
    /\ next_expected = NaT
    /\ cancel_requested = FALSE

NextFetch ==
    \/ FetchDataAttempt
    \/ FetchDataFinish
    \/ SingleAttempt
    \/ SingleFinish

-----------------------------------------------------------------------------
(* Specifications *)

\* auto_update_loop under every configuration, server content and timing.
Spec == Init /\ [][Next]_vars

\* One call of a retrying fetcher against every plan of server answers.
SpecFetch == InitFetch /\ [][NextFetch]_vars

\* drop_na_get_final on every raw frame, and on its own result.
SpecNorm == InitNorm /\ [][NextNorm]_vars

\* plot_diff on every pair of normalised snapshots.
SpecDiff == InitDiff /\ [][NextDiff]_vars

\* The two orderings, the first computed from every normalised snapshot.
SpecOrder == InitOrder /\ [][NextOrder]_vars

-----------------------------------------------------------------------------
(* Properties of the retrying fetchers (checked under SpecFetch) *)

\* Every sub-request of attempt i is answered 200.
AttemptAllOk(i) ==
    /\ plan[i][1] = "ok200"
    /\ fetcher \in SingleRequest \/ plan[i][2] = "ok200"

AttemptsMade == CountOf(events, "get1")

RequestsMade == CountOf(events, "get1") + CountOf(events, "get2")

FetchEnded == fpc \in {"returned", "raised"}

\* C1: when no attempt has all of its sub-requests answered 200, the fetch
\* never returns responses: it ends by raising, after exactly
\* query_attempt_count attempts.
C1_NoSuccessRaises ==
    (\A i \in 1..query_attempt_count : ~AttemptAllOk(i)) =>
        /\ fpc # "returned"
        /\ AttemptsMade <= query_attempt_count
        /\ FetchEnded => (fpc = "raised" /\ AttemptsMade = query_attempt_count)

\* C2: when attempts 1..k-1 fail and attempt k has all of its sub-requests
\* answered 200, the fetch makes exactly k attempts, issues no request after
\* attempt k and returns the responses obtained in attempt k.
C2_FirstSuccessReturned ==
    \A k \in 1..query_attempt_count :
        (AttemptAllOk(k) /\ \A j \in 1..(k - 1) : ~AttemptAllOk(j)) =>
            /\ AttemptsMade <= k
            /\ RequestsMade <= k * (IF fetcher = "fetch_data" THEN 2 ELSE 1)
            /\ fpc # "raised"
            /\ fpc \in {"check", "returned"} => (AttemptsMade = k /\ attempt = k)
            /\ fpc = "returned" =>
                  /\ Len(result) = (IF fetcher = "fetch_data" THEN 2 ELSE 1)
                  /\ \A n \in 1..Len(result) :
                        result[n].made_in = k /\ result[n].status_code = 200

\* A fetch_data call that has returned at its last attempt, after failures.
C2_Witness ==
    /\ fetcher = "fetch_data"
    /\ fpc = "returned"
    /\ query_attempt_count >= 3
    /\ attempt = query_attempt_count
    /\ plan[1][1] = "ok200"

\* The attempt in which the event at position p of the log happened.
AttemptOfEvent(p) == CountOf(SubSeq(events, 1, p), "get1")

\* C20: in the log of a fetch, the 1-second pause stands after the first
\* sub-request and before the second in every attempt of fetch_data whose
\* first sub-request does not throw, and nowhere else; a 2-second sleep
\* follows a failed attempt exactly when another attempt remains; a fetch
\* that has ended at attempt k slept k-1 times between attempts and not
\* after its last attempt.
C20_SleepOrdering ==
    /\ \A p \in 1..Len(events) :
          /\ events[p] = "get1" =>
                /\ p > 1 => events[p - 1] = "sleep2"
                /\ (fetcher = "fetch_data" /\ plan[AttemptOfEvent(p)][1] # "exception") =>
                      /\ p + 2 <= Len(events)
                      /\ events[p + 1] = "sleep1"
                      /\ events[p + 2] = "get2"
          /\ events[p] = "sleep1" =>
                /\ fetcher = "fetch_data"
                /\ p > 1 /\ events[p - 1] = "get1"
                /\ plan[AttemptOfEvent(p)][1] # "exception"
                /\ p < Len(events) /\ events[p + 1] = "get2"
          /\ events[p] = "get2" => (p > 2 /\ events[p - 1] = "sleep1")
          /\ events[p] = "sleep2" =>
                /\ p > 1 /\ events[p - 1] \in {"get1", "get2"}
                /\ AttemptOfEvent(p) < query_attempt_count
                /\ ~AttemptAllOk(AttemptOfEvent(p))
                /\ p < Len(events) => events[p + 1] = "get1"
    /\ (fpc = "loop" /\ events # <<>>) =>
          /\ events[Len(events)] = "sleep2"
          /\ CountOf(events, "sleep2") = AttemptsMade
    /\ fpc \in {"check", "returned", "raised"} =>
          /\ events[Len(events)] # "sleep2"
          /\ CountOf(events, "sleep2") = AttemptsMade - 1
          /\ AttemptsMade <= query_attempt_count

\* A fetch_data call of three attempts has ended by raising: the first
\* sub-request threw in attempt 1 and was answered in attempt 2.
C20_Witness ==
    /\ fetcher = "fetch_data"
    /\ fpc = "raised"
    /\ query_attempt_count = 3
    /\ plan[1][1] = "exception"
    /\ plan[2][1] = "ok200"
    /\ CountOf(events, "sleep2") = 2
    /\ CountOf(events, "sleep1") >= 1

-----------------------------------------------------------------------------
(* Properties of the normalisation (checked under SpecNorm) *)

\* The positions of the rows of df that have key k.
RowsWithKey(df, k) == {i \in 1..Len(df) : KeyOf(df[i]) = k}

\* The positions of the rows of df that have key k and a value.
ValuedWithKey(df, k) == {i \in RowsWithKey(df, k) : df[i].indicatedImbalance # NaN}

\* C5: normalisation yields exactly one row for every (settlementDate,
\* settlementPeriod) that has a row with a value, and none for any other key;
\* the row kept is one of that key's rows with a value, and has the greatest
\* publish time among them.
C5_OneLatestRowPerValuedKey ==
    npc \in {"once", "twice"} =>
        \A k \in Keys :
            LET valued == ValuedWithKey(df_raw, k)
                kept == RowsWithKey(final_df, k)
            IN  IF valued = {}
                THEN kept = {}
                ELSE /\ Cardinality(kept) = 1
                     /\ \A i \in kept :
                           /\ \E j \in valued : final_df[i] = df_raw[j]
                           /\ \A j \in valued :
                                 final_df[i].publishTime_cest >= df_raw[j].publishTime_cest

\* Two rows of one key, both with a value, the later-published one first in
\* the input: the sort decides, and the first row is the one kept.
C5_Witness ==
    /\ npc = "once"
    /\ Len(df_raw) = 2
    /\ KeyOf(df_raw[1]) = KeyOf(df_raw[2])
    /\ df_raw[1].indicatedImbalance # NaN
    /\ df_raw[2].indicatedImbalance # NaN
    /\ df_raw[1].publishTime_cest > df_raw[2].publishTime_cest
    /\ final_df = <<df_raw[1]>>

\* C6: normalisation is idempotent: normalising a normalised frame gives a
\* frame of exactly the same rows.
C6_NormalizeIdempotent ==
    npc = "twice" =>
        /\ RowsOf(final_df2) = RowsOf(final_df)
        /\ Len(final_df2) = Len(final_df)

\* Two rows of one key and one publish time, both with a value, normalised
\* twice.
C6_Witness ==
    /\ npc = "twice"
    /\ Len(df_raw) = 2
    /\ KeyOf(df_raw[1]) = KeyOf(df_raw[2])
    /\ df_raw[1].publishTime_cest = df_raw[2].publishTime_cest
    /\ df_raw[1].indicatedImbalance # NaN
    /\ df_raw[2].indicatedImbalance # NaN
    /\ Len(final_df) = 1
    /\ Len(final_df2) = 1

\* The positions of the rows of df that have key k, a value, and the
\* greatest publish time among such rows.
LatestWithKey(df, k) ==
    {i \in ValuedWithKey(df, k) :
        \A j \in ValuedWithKey(df, k) : df[i].publishTime_cest >= df[j].publishTime_cest}

\* C19: when several rows of one (settlementDate, settlementPeriod) with a
\* value share the greatest publish time, the row kept is the one that comes
\* first in the input.
C19_TieKeepsFirstSeen ==
    npc \in {"once", "twice"} =>
        \A k \in Keys :
            LET latest == LatestWithKey(df_raw, k)
            IN  Cardinality(latest) >= 2 =>
                    \A i \in RowsWithKey(final_df, k) :
                        final_df[i] = df_raw[CHOOSE m \in latest : \A n \in latest : m <= n]

-----------------------------------------------------------------------------
(* Properties of the snapshot comparison (checked under SpecDiff) *)

\* The status of a row of the diff, read from the masks and the delta.
Status(row) ==
    IF both_mask(row)
    THEN (IF row.delta = Some(0) THEN "unchanged" ELSE "changed")
    ELSE IF new_mask(row) THEN "appeared" ELSE "disappeared"

\* C7: diff(S, S) has one row for every key of S, and every row has both
\* values present and equal, and delta 0.
C7_SelfDiffUnchanged ==
    (dpc = "plotted" /\ prev_df = new_df) =>
        /\ Cardinality(merged) = Len(prev_df)
        /\ \A i \in 1..Len(prev_df) :
              Cardinality({row \in merged : row.prev = prev_df[i]}) = 1
        /\ \A row \in merged :
              /\ both_mask(row)
              /\ row.indicatedImbalance_prev = row.indicatedImbalance_new
              /\ row.delta = Some(0)

\* C8: the keys of the rows of diff(A, B) are the keys of A and of B under
\* the merge key, with exactly one row for each; a key of A alone has the
\* previous value and no new value, a key of B alone the new value and no
\* previous value.
C8_DiffKeysAreUnion ==
    dpc = "plotted" =>
        LET keysA == {MergeKey(r, is_same_date) : r \in RowsOf(prev_df)}
            keysB == {MergeKey(r, is_same_date) : r \in RowsOf(new_df)}
        IN  /\ {row.key : row \in merged} = keysA \cup keysB
            /\ \A k \in keysA \cup keysB :
                  Cardinality({row \in merged : row.key = k}) = 1
            /\ \A row \in merged :
                  /\ row.key \in keysA \ keysB => (prev_mask(row) /\ ~new_mask(row))
                  /\ row.key \in keysB \ keysA => (new_mask(row) /\ ~prev_mask(row))

\* C9: in every row of the diff, when both values are present the delta is
\* the new value minus the previous one, and the row is unchanged exactly
\* when the values are equal; when a value is missing the delta is missing.
\* {1:100, 2:200} against {1:150, 2:200, 3:50} gives 1 changed by +50,
\* 2 unchanged with 0, 3 appeared with no delta.
C9_DeltaAndStatus ==
    dpc = "plotted" =>
        /\ \A row \in merged :
              IF row.indicatedImbalance_prev # NaN /\ row.indicatedImbalance_new # NaN
              THEN /\ row.delta =
                         Some(row.indicatedImbalance_new[1] - row.indicatedImbalance_prev[1])
                   /\ (Status(row) = "unchanged") <=>
                         (row.indicatedImbalance_new = row.indicatedImbalance_prev)
                   /\ Status(row) \in {"unchanged", "changed"}
              ELSE row.delta = NaN
        /\ (prev_df = ExamplePrev /\ new_df = ExampleNew) =>
              {<<row.key, Status(row), row.delta>> : row \in merged} =
                  {<<<<"date", 1>>, "changed", Some(50)>>,
                   <<<<"date", 2>>, "unchanged", Some(0)>>,
                   <<<<"date", 3>>, "appeared", NaN>>}

\* The example of the specification has been compared.
C9_Witness ==
    /\ dpc = "plotted"
    /\ prev_df = ExamplePrev
    /\ new_df = ExampleNew
    /\ Cardinality(merged) = 3

\* Every row of df has settlement date d, and df has a row.
SingleDate(df, d) == df # <<>> /\ \A i \in 1..Len(df) : df[i].settlementDate = d

\* The pairs of rows that a join of prev and new on the given columns puts
\* in one row.
JoinedPairs(prev, new, with_date) ==
    {pn \in RowsOf(prev) \X RowsOf(new) :
        /\ pn[1].settlementPeriod = pn[2].settlementPeriod
        /\ with_date => pn[1].settlementDate = pn[2].settlementDate}

\* C18: plot_diff joins on (settlementDate, settlementPeriod) exactly when
\* each snapshot has one settlement date and the two are the same date; in
\* every other case it joins on settlementPeriod alone. The rows of the
\* merged frame that have both sides are exactly the pairs that agree on
\* the columns of the join.
C18_MergeKeyRule ==
    dpc = "plotted" =>
        LET same == \E d \in {r.settlementDate : r \in RowsOf(prev_df)} :
                        SingleDate(prev_df, d) /\ SingleDate(new_df, d)
        IN  /\ is_same_date = same
            /\ \A row \in merged :
                  \/ row.key = (IF same
                                THEN <<row.prev.settlementDate, row.prev.settlementPeriod>>
                                ELSE <<row.prev.settlementPeriod>>)
                  \/ row.key = (IF same
                                THEN <<row.new.settlementDate, row.new.settlementPeriod>>
                                ELSE <<row.new.settlementPeriod>>)
            /\ {<<row.prev, row.new>> :
                    row \in {x \in merged : x.prev # NoRow /\ x.new # NoRow}}
                  = JoinedPairs(prev_df, new_df, same)

\* Two snapshots of one date each, the dates different, with a period in
\* common: joined on the period alone.
C18_Witness ==
    /\ dpc = "plotted"
    /\ SingleDate(prev_df, "last_day")
    /\ SingleDate(new_df, "date")
    /\ ~is_same_date
    /\ \E row \in merged : row.prev # NoRow /\ row.new # NoRow

-----------------------------------------------------------------------------
(* Properties of the settlement-period ordering (checked under SpecOrder) *)

\* int(s) for a string of decimal digits
DigitValue(c) == CHOOSE d \in 0..9 : DigitChars[d + 1] = c

RECURSIVE int(_)
int(s) ==
    IF Len(s) = 1 THEN DigitValue(s[1])
    ELSE 10 * int(SubSeq(s, 1, Len(s) - 1)) + DigitValue(s[Len(s)])

\* order is 47, 48, 1, 2, ..., 46 as decimal strings: 48 entries, each of
\* 1..48 exactly once, none with a leading zero.
IsCanonicalOrder(order) ==
    LET values == [i \in 1..Len(order) |-> int(order[i])]
    IN  /\ Len(order) = 48
        /\ order[1] = <<"4", "7">>
        /\ order[2] = <<"4", "8">>
        /\ \A i \in 1..46 : values[i + 2] = i
        /\ \A v \in 1..48 : Cardinality({i \in 1..Len(order) : values[i] = v}) = 1
        /\ \A i \in 1..Len(order) : order[i][1] # "0"

\* C12: the order returned by create_custom_ordering, whatever the frame it
\* is given, and the order returned by settlement_period_order, are the
\* sequence 47, 48, 1, 2, ..., 46 as strings: 48 entries, each of 1..48
\* exactly once, starting with 47, 48.
C12_CanonicalOrder ==
    /\ order_str # <<>> => IsCanonicalOrder(order_str)
    /\ sp_order # <<>> => IsCanonicalOrder(sp_order)

\* Both orders have been computed, the first from a frame of two rows.
C12_Witness ==
    /\ order_str # <<>>
    /\ sp_order # <<>>
    /\ Len(final_df) = 2
    /\ final_df[1].settlementPeriod # final_df[2].settlementPeriod

-----------------------------------------------------------------------------
(* Properties of the polling loop (checked under Spec) *)

\* The last thing the current cycle did.
LastEvent == IF cycle_events = <<>> THEN <<"none", 0>> ELSE cycle_events[Len(cycle_events)]

\* C3: once the loop runs, prev_df and prev_max_publish change only in a step
\* that fetched a candidate whose greatest publish time is strictly later
\* than prev_max_publish, and they become the candidate's; prev_max_publish
\* never decreases; a candidate of the same greatest publish time emits no
\* diff and does not replace the snapshot.
C3_AcceptOnlyStrictlyNewer ==
    [][lpc # "start" =>
          /\ (prev_df' # prev_df \/ prev_max_publish' # prev_max_publish) =>
                /\ lpc \in {"check", "retry_fetch"}
                /\ new_max_publish' # NaT
                /\ prev_max_publish # NaT
                /\ new_max_publish'[1] > prev_max_publish[1]
                /\ prev_df' = new_df'
                /\ prev_max_publish' = new_max_publish'
          /\ prev_max_publish # NaT =>
                (prev_max_publish' # NaT /\ prev_max_publish'[1] >= prev_max_publish[1])
          /\ (lpc \in {"check", "retry_fetch"} /\ lpc' # "terminated"
                /\ new_max_publish' = prev_max_publish) =>
                /\ UNCHANGED <<prev_df, prev_max_publish, merged>>
                /\ cycle_events' = Append(cycle_events, <<"fetch", 0>>)
    ]_vars

\* After a candidate was accepted, a candidate of the same greatest publish
\* time has been fetched and left aside.
C3_Witness ==
    /\ lpc \in {"cycle", "retry_next"}
    /\ merged # {}
    /\ prev_max_publish # NaT
    /\ new_max_publish = prev_max_publish
    /\ LastEvent = <<"fetch", 0>>

\* C4: an exception of the fetch in the check or in a retry does not end the
\* loop.
C4_FetchFailureNotFatal ==
    ~(lpc = "terminated" /\ raised_in \in {"check", "retry"})

\* C10: at the start of a cycle, when next_expected is not later than the
\* clock the loop goes to the check at once, without a countdown; and the
\* countdown of the interval never gets a negative number of seconds.
C10_NoWaitWhenPast ==
    [][/\ lpc = "cycle" =>
             IF /\ prev_max_publish # NaT
                /\ (prev_max_publish[1] + update_interval) * TicksPerSecond > now
             THEN lpc' = "countdown" /\ seconds' >= 0
             ELSE lpc' = "check" /\ now' = now /\ cycle_events' = <<>>
       /\ lpc' = "countdown" => seconds' >= 0
    ]_vars

\* A cycle whose next_expected was in the past is at its check, and nothing
\* was slept.
C10_Witness ==
    /\ lpc = "check"
    /\ cycle_events = <<>>
    /\ prev_max_publish # NaT
    /\ (prev_max_publish[1] + update_interval) * TicksPerSecond < now

\* The events of one kind in the current cycle.
FetchEvent == <<"fetch", 0>>

DiffEvent == <<"diff", 0>>

\* The candidate's greatest publish time is strictly later than the stored one.
StrictlyLater(candidate_max, stored_max) ==
    /\ candidate_max # NaT
    /\ stored_max # NaT
    /\ candidate_max[1] > stored_max[1]

\* The positions of the countdown_timer calls in a sequence of events.
CountdownCalls(ev) == {i \in 1..Len(ev) : ev[i][1] = "countdown"}

\* C11: with retry disabled, a first check that returns a candidate that is
\* not strictly newer ends the cycle: the cycle made exactly one fetch, no
\* retry delay was slept, no retry fetch was made, no diff was emitted, and
\* prev_df and prev_max_publish are what they were when the next cycle
\* starts; with retry disabled the loop is never in its retry sequence.
C11_RetryDisabledMiss ==
    [][/\ (/\ lpc = "check"
            /\ ~retry
            /\ cycle_events' # cycle_events
            /\ lpc' # "terminated"
            /\ ~StrictlyLater(new_max_publish', prev_max_publish)) =>
               /\ lpc' = "cycle"
               /\ update_cycle' = update_cycle + 1
               /\ cycle_events' = Append(cycle_events, FetchEvent)
               /\ CountOf(cycle_events', FetchEvent) = 1
               /\ CountOf(cycle_events', DiffEvent) = 0
               /\ CountdownCalls(cycle_events') \subseteq {1}
               /\ UNCHANGED <<prev_df, prev_max_publish, merged>>
       /\ ~retry => lpc' \notin {"retry_next", "retry_countdown", "retry_fetch"}
    ]_vars

\* With retry disabled, a cycle that waited for its interval and then fetched a
\* candidate of the stored publish time has ended.
C11_Witness ==
    /\ lpc = "cycle"
    /\ ~retry
    /\ update_cycle >= 2
    /\ Len(cycle_events) >= 3
    /\ cycle_events[1][1] = "countdown"
    /\ LastEvent = FetchEvent
    /\ CountOf(cycle_events, FetchEvent) = 1
    /\ prev_max_publish # NaT
    /\ new_max_publish = prev_max_publish

\* C13: once cancellation has been signalled during a sleep of the loop (the
\* interval wait or a retry delay), the loop issues no further fetch and
\* emits no diff.
C13_CancelStopsLoop ==
    [][cancel_requested =>
          /\ CountOf(cycle_events', FetchEvent) <= CountOf(cycle_events, FetchEvent)
          /\ CountOf(cycle_events', DiffEvent) <= CountOf(cycle_events, DiffEvent)
          /\ merged' = merged
    ]_vars

\* The cycle that has just ended made its check with retry disabled and
\* found no new data.
AfterRetryDisabledMiss ==
    /\ lpc = "cycle"
    /\ ~retry
    /\ update_cycle >= 2
    /\ LastEvent = FetchEvent

\* C14: after a check with retry disabled that found no new data, the next
\* cycle does not poll at once: it waits one more update interval before its
\* fetch.
C14_FullIntervalAfterMiss ==
    [][(AfterRetryDisabledMiss /\ update_interval > 0 /\ lpc' # lpc) =>
          /\ lpc' = "countdown"
          /\ seconds' >= update_interval
    ]_vars

\* diff is a diff of (stored, candidate): every row takes its previous side
\* from stored and its new side from candidate, and every row of the two
\* snapshots is in it.
IsDiffOf(diff, stored, candidate) ==
    /\ \A row \in diff :
          /\ row.prev \in RowsOf(stored) \cup {NoRow}
          /\ row.new \in RowsOf(candidate) \cup {NoRow}
    /\ \A r \in RowsOf(stored) : \E row \in diff : row.prev = r
    /\ \A r \in RowsOf(candidate) : \E row \in diff : row.new = r

\* C15: a first check that returns a candidate whose greatest publish time
\* is strictly later than prev_max_publish emits exactly one diff, of the
\* stored snapshot and the candidate, makes the candidate the stored snapshot
\* and its greatest publish time prev_max_publish, and ends the cycle: no
\* retry delay is slept and no retry fetch made in that cycle.
C15_FirstAttemptHit ==
    [][(/\ lpc = "check"
        /\ cycle_events' # cycle_events
        /\ lpc' # "terminated"
        /\ StrictlyLater(new_max_publish', prev_max_publish)) =>
           /\ cycle_events' = cycle_events \o <<FetchEvent, DiffEvent>>
           /\ CountOf(cycle_events', FetchEvent) = 1
           /\ CountOf(cycle_events', DiffEvent) = 1
           /\ CountdownCalls(cycle_events') \subseteq {1}
           /\ IsDiffOf(merged', prev_df, new_df')
           /\ prev_df' = new_df'
           /\ prev_max_publish' = new_max_publish'
           /\ lpc' = "cycle"
           /\ update_cycle' = update_cycle + 1
    ]_vars

\* A cycle waited for its interval, found newer data at its first check and
\* has ended with one diff.
C15_Witness ==
    /\ lpc = "cycle"
    /\ Len(cycle_events) >= 3
    /\ cycle_events[1][1] = "countdown"
    /\ CountOf(cycle_events, FetchEvent) = 1
    /\ LastEvent = DiffEvent
    /\ prev_df = new_df
    /\ prev_max_publish = Some(MaxPublish)
    /\ merged # {}

\* What the current cycle did after its first check.
FirstFetchIndex(ev) ==
    IF \E i \in 1..Len(ev) : ev[i] = FetchEvent
    THEN CHOOSE i \in 1..Len(ev) : ev[i] = FetchEvent /\ \A j \in 1..(i - 1) : ev[j] # FetchEvent
    ELSE Len(ev)

RetryPart(ev) == SubSeq(ev, FirstFetchIndex(ev) + 1, Len(ev))

\* n sleeps of one second
Sleeps(n) == [i \in 1..n |-> <<"sleep", 1>>]

\* A retry: the call of the countdown with the delay, the delay slept, the fetch.
RetrySegment(inc) == <<<<"countdown", inc>>>> \o Sleeps(inc) \o <<FetchEvent>>

\* The first k retries of a cycle, with the delays in their configured order.
RECURSIVE RetryTrace(_, _)
RetryTrace(incs, k) ==
    IF k = 0 THEN <<>> ELSE RetryTrace(incs, k - 1) \o RetrySegment(incs[k])

\* C16: in the retry sequence of a cycle the delays are used in the order of
\* retry_increments, every retry fetch comes after the countdown and the
\* sleep of its own delay, and there are at most len(retry_increments) retry
\* fetches; when a retry fetch returns a strictly newer publish time the
\* cycle ends with exactly one diff and the candidate stored, and no later
\* delay is slept or fetched.
C16_RetrySequence ==
    LET part == RetryPart(cycle_events)
        done == RetryTrace(retry_increments, retry_i - 1)
    IN  /\ CountOf(cycle_events, FetchEvent) <= 1 + Len(retry_increments)
        /\ lpc = "retry_next" =>
              /\ retry_i - 1 <= Len(retry_increments)
              /\ part = done
        /\ lpc = "retry_countdown" =>
              /\ retry_i <= Len(retry_increments)
              /\ part = done \o <<<<"countdown", retry_increments[retry_i]>>>>
                             \o Sleeps(retry_increments[retry_i] - seconds)
        /\ lpc = "retry_fetch" =>
              /\ retry_i <= Len(retry_increments)
              /\ part = done \o <<<<"countdown", retry_increments[retry_i]>>>>
                             \o Sleeps(retry_increments[retry_i])
        /\ (lpc = "cycle" /\ part # <<>> /\ part # <<DiffEvent>>) =>
              \/ /\ part = RetryTrace(retry_increments, Len(retry_increments))
                 /\ retry_i = Len(retry_increments) + 1
              \/ /\ retry_i <= Len(retry_increments)
                 /\ part = RetryTrace(retry_increments, retry_i) \o <<DiffEvent>>
                 /\ prev_df = new_df
                 /\ prev_max_publish = new_max_publish

\* The first of two different delays was slept, its fetch found newer data,
\* and the cycle ended with a diff and without the second delay.
C16_Witness ==
    /\ lpc = "cycle"
    /\ Len(retry_increments) = 2
    /\ retry_increments[1] = 1
    /\ retry_increments[2] = 0
    /\ retry_i = 1
    /\ RetryPart(cycle_events) = RetrySegment(1) \o <<DiffEvent>>
    /\ prev_df = new_df

\* The cycle that has just ended used up its retries without a hit.
AfterExhaustedRetries ==
    /\ lpc = "cycle"
    /\ retry
    /\ update_cycle >= 2
    /\ retry_i = Len(retry_increments) + 1
    /\ CountOf(cycle_events, FetchEvent) = 1 + Len(retry_increments)
    /\ CountOf(cycle_events, DiffEvent) = 0

\* C17: the step that finds the retries used up leaves prev_df and
\* prev_max_publish as they are; every cycle starts with next_expected =
\* prev_max_publish + update_interval, whatever the clock; and the
\* next_expected of the cycle after an exhausted retry sequence is the
\* next_expected of the cycle before.
C17_NextExpectedFromLastAccepted ==
    [][/\ (lpc = "retry_next" /\ retry_i > Len(retry_increments) /\ lpc' # lpc) =>
             /\ lpc' = "cycle"
             /\ UNCHANGED <<prev_df, prev_max_publish, merged>>
       /\ (lpc = "cycle" /\ lpc' # lpc) =>
             next_expected' = IF prev_max_publish = NaT THEN NaT
                              ELSE Some(prev_max_publish[1] + update_interval)
       /\ (AfterExhaustedRetries /\ lpc' # lpc) => next_expected' = next_expected
    ]_vars

\* The cycle after an exhausted retry sequence has started, later than the
\* time it expects: no candidate was ever accepted, and next_expected is
\* still the initial publish time plus the interval.
C17_Witness ==
    /\ lpc = "check"
    /\ cycle_events = <<>>
    /\ retry
    /\ update_cycle >= 2
    /\ retry_i = Len(retry_increments) + 1
    /\ merged = {}
    /\ update_interval > 0
    /\ prev_max_publish # NaT
    /\ next_expected = Some(prev_max_publish[1] + update_interval)
    /\ next_expected[1] * TicksPerSecond < now


\* The position in the log of the cycle of its latest countdown_timer call.
LastCountdownCall ==
    CHOOSE i \in CountdownCalls(cycle_events) :
        \A j \in CountdownCalls(cycle_events) : j <= i

\* The one-second sleeps made since the latest countdown_timer call.
SleptSinceCall ==
    Cardinality({i \in (LastCountdownCall + 1)..Len(cycle_events) :
                    cycle_events[i] = <<"sleep", 1>>})

\* max(n, 0)
MaxWithZero(n) == IF n > 0 THEN n ELSE 0

\* C21: countdown_timer(n) makes max(n, 0) one-second sleeps and returns,
\* for the whole seconds of the interval wait and for every delay of
\* retry_increments, negative ones too: while it runs it has slept at most
\* max(n, 0) times, and the fetch that follows it comes after exactly
\* max(n, 0) sleeps.
C21_CountdownTerminates ==
    /\ lpc \in {"countdown", "retry_countdown"} =>
          SleptSinceCall <= MaxWithZero(cycle_events[LastCountdownCall][2])
    /\ (lpc \in {"check", "retry_fetch"} /\ CountdownCalls(cycle_events) # {}) =>
          SleptSinceCall = MaxWithZero(cycle_events[LastCountdownCall][2])

=============================================================================
